---------------------------- MODULE Spec2Model ----------------------------
(***************************************************************************)
(* Redshift by cross-correlation (notebooks/redshift_crosscorr/            *)
(* redshift_with_crosscorr.ipynb).  The notebook is a chain of cells over  *)
(* the kernel's global names: read -> continuum subtraction -> smoothing   *)
(* with a windowed-sinc kernel -> template correlation -> coarse peak ->   *)
(* parabolic fit of the peak.  Each cell is one action; the cells'         *)
(* arithmetic is modelled by operators over integers and exact rationals   *)
(* (a rational is a pair <<numerator, denominator>>).                      *)
(***************************************************************************)
EXTENDS Integers, Sequences, FiniteSets, TLC

VARIABLES
    pc,          \* the cell that ran last ("kernel", "smooth", ... ; see the Init's)
    err,         \* "" or the name of the exception that ended the cell
    b,           \* transition band of the filter, <<num, den>>
    N,           \* kernel length (0 before the smoothing cell computes it)
    filt,        \* kernel taps, exact rationals summing to 1; <<>> before design
    obs,         \* observation Spectrum1D
    template,    \* template Spectrum1D
    p_obs,       \* processed observation
    p_template,  \* processed template
    sflux,       \* np.convolve output of the smoothing cell, exact rationals
    corr,        \* correlation values
    lag,         \* lag axis, index-aligned with corr
    index_peak,  \* 0-based index of the coarse peak (-1 before the cell ran)
    peak_lags,   \* lag slice used by the parabolic fit
    peak_vals,   \* corr slice used by the parabolic fit
    v,           \* lag of the coarse peak
    p,           \* np.polyfit coefficients, see PolyFit2
    roots,       \* np.roots(p), see Roots
    v_fit,       \* refined velocity, see MeanRoots
    z,           \* redshift, see Redshift
    hdu1d,       \* flux file: [data, CD1_1, CRVAL1]
    hdu1dwht,    \* weight file: [data]
    dataspec_sub, \* rows of the observation table with weight > 0
    obs_orig     \* low-resolution case: the observation before gaussian_smooth

vars == <<pc, err, b, N, filt, obs, template, p_obs, p_template, sflux,
          corr, lag, index_peak, v, peak_lags, peak_vals, p, roots, v_fit, z,
          hdu1d, hdu1dwht, dataspec_sub, obs_orig>>

---------------------------------------------------------------------------
(* Bounds of the model.                                                    *)

MaxDen == 24         \* denominators of the transition band b
MaxFluxLen == 10     \* samples of a spectrum handed to the smoothing cell
MaxCore == 4         \* free samples of a correlation curve
MaxPad == 10         \* zero samples before and after the free ones
MaxObsLen == 3       \* samples of a spectrum handed to the correlator
MaxShift == 5        \* bins the observation's axis may start after bin 1
TemplateStart == 2   \* bins the template's axis starts after bin 1
MaxTemplateLen == 2  \* samples of the template beside the smoothing cell
MaxRawLen == 4       \* pixels of the flux and weight files
MaxStep == 2         \* largest wavelength step CD1_1 of the flux file
MaxStart == 1        \* largest start wavelength CRVAL1 of the flux file

FluxVals == {0, 1}
LineVals == {-1, 0, 1}
CorrVals == {-1, 0, 2}
WeightVals == {-1, 0, 2}

---------------------------------------------------------------------------
(* Arithmetic helpers.                                                     *)

Abs(x) == IF x < 0 THEN -x ELSE x

Sign(x) == IF x < 0 THEN -1 ELSE IF x = 0 THEN 0 ELSE 1

Min(x, y) == IF x < y THEN x ELSE y

Max(x, y) == IF x < y THEN y ELSE x

RECURSIVE GCD(_, _)
GCD(x, y) == IF y = 0 THEN Abs(x) ELSE GCD(y, x % Abs(y))

\* A rational in lowest terms with a positive denominator.
Norm(q) ==
    LET g == GCD(q[1], q[2])
        s == IF q[2] < 0 THEN -1 ELSE 1
    IN  <<s * (q[1] \div g), s * (q[2] \div g)>>

RECURSIVE SumTo(_, _)
SumTo(f, k) == IF k = 0 THEN 0 ELSE f[k] + SumTo(f, k - 1)

\* np.sum of a sequence.
Sum(s) == SumTo(s, Len(s))

\* All sequences over S of length lo..hi.
SeqsOf(S, lo, hi) == UNION {[1..len -> S] : len \in lo..hi}

\* A Spectrum1D: spectral axis, flux (flux[i] / scale is the value) and
\* standard-deviation uncertainty, index-aligned.
Spectrum1D(w, f, sc, u) ==
    [wavelength |-> w, flux |-> f, scale |-> sc, uncertainty |-> u]

NoSpectrum == Spectrum1D(<<>>, <<>>, 1, <<>>)

---------------------------------------------------------------------------
(* Smoothing cell: kernel design.                                          *)

\* fc = 0.05 and b = 0.49, the values the cell ends up with.
fc == <<1, 20>>

b_default == <<49, 100>>

\* np.ceil(x) for a positive rational x = num / den.
Ceil(num, den) == (num + den - 1) \div den

KernelLengthLeftEven(bb) == Ceil(4 * bb[2], bb[1])

\* N = int(np.ceil(4 / b)); if not N % 2: N += 1
KernelLength(bb) ==
    LET n0 == Ceil(4 * bb[2], bb[1])
    IN  IF n0 % 2 = 0 THEN n0 + 1 ELSE n0

\* filt = np.sinc(2 * fc * (n - (N - 1) / 2)) * w for fc = 0.05, N = 9, with
\* w the Blackman window: the nine taps before normalisation, rounded to
\* thousandths (sinc and cos are not rational; the end taps are 0 because
\* the window is, 0.42 - 0.5 + 0.08).
WindowedSinc9 == <<0, 57, 318, 761, 1000, 761, 318, 57, 0>>

\* The values s[i] / den as rationals in lowest terms.
Over(s, den) == [i \in 1..Len(s) |-> Norm(<<s[i], den>>)]

\* filt /= np.sum(filt)
Normalised(taps) == Over(taps, Sum(taps))

\* The flux values of a spectrum, flux[i] / scale.
FluxValues(sp) == Over(sp.flux, sp.scale)

---------------------------------------------------------------------------
(* Smoothing cell: np.convolve(a, v, mode='same').                         *)

RECURSIVE ConvTerm(_, _, _, _)
\* sum over i <= m of a[i] * w[k - i + 1], the full convolution's k-th value
ConvTerm(a, w, k, m) ==
    IF m = 0 THEN 0
    ELSE (IF k - m + 1 >= 1 /\ k - m + 1 <= Len(w)
          THEN a[m] * w[k - m + 1] ELSE 0) + ConvTerm(a, w, k, m - 1)

ConvolveFull(a, w) ==
    [k \in 1..(Len(a) + Len(w) - 1) |-> ConvTerm(a, w, k, Len(a))]

\* np.convolve(a, w, mode='same'): numpy swaps the arguments when w is the
\* longer one, and returns the central max(M, N) values of the full
\* convolution.
ConvolveSame(a, w) ==
    LET long == IF Len(w) > Len(a) THEN w ELSE a
        short == IF Len(w) > Len(a) THEN a ELSE w
        full == ConvolveFull(long, short)
        off == Len(short) - 1 - (Len(short) \div 2)
    IN  [j \in 1..Len(long) |-> full[j + off]]

---------------------------------------------------------------------------
(* Values the names hold before the cell that binds them has run.          *)

NoFit == [kind |-> "none", a |-> 0, b |-> 0, c |-> 0, d |-> 1]

NoValue == [kind |-> "none", q |-> <<0, 1>>]

NoRedshift == [kind |-> "none", q |-> <<0, 1>>, per_c |-> <<0, 1>>]

KernelUnset == b = b_default /\ N = 0 /\ filt = <<>>

SpectraUnset == obs = NoSpectrum /\ template = NoSpectrum

ProcessedUnset == p_obs = NoSpectrum /\ p_template = NoSpectrum

CorrUnset == corr = <<>> /\ lag = <<>>

PeakUnset ==
    /\ index_peak = -1 /\ v = NoValue
    /\ peak_lags = <<>> /\ peak_vals = <<>>
    /\ p = NoFit /\ roots = <<>> /\ v_fit = NoValue /\ z = NoRedshift

NoFluxFile == [data |-> <<>>, CD1_1 |-> 1, CRVAL1 |-> 0]

RawUnset ==
    /\ hdu1d = NoFluxFile /\ hdu1dwht = [data |-> <<>>] /\ dataspec_sub = <<>>
    /\ obs_orig = NoSpectrum

---------------------------------------------------------------------------
(* Kernel length for any transition band b in (0, 0.5).                    *)

\* The rationals num / den strictly between 0 and 1/2, den <= MaxDen.
Bands == {bb \in (1..MaxDen) \X (1..MaxDen) : 2 * bb[1] < bb[2]}

InitKernel ==
    /\ pc = "kernel" /\ err = ""
    /\ b \in Bands /\ N = 0 /\ filt = <<>>
    /\ SpectraUnset /\ ProcessedUnset /\ sflux = <<>> /\ CorrUnset /\ PeakUnset /\ RawUnset

DesignKernel ==
    /\ pc = "kernel"
    /\ N' = KernelLength(b)
    /\ pc' = "kernel_done"
    /\ UNCHANGED <<hdu1d, hdu1dwht, dataspec_sub, obs_orig,
                   err, b, filt, obs, template, p_obs, p_template, sflux,
                   corr, lag, index_peak, v, peak_lags, peak_vals, p,
                   roots, v_fit, z>>

NextKernel == DesignKernel

SpecKernel == InitKernel /\ [][NextKernel]_vars

---------------------------------------------------------------------------
(* Smoothing cell, run on a continuum-subtracted observation.              *)

\* wave = np.arange(len) * CD1_1 + CRVAL1: a uniform axis, here 1..len.
Axis(len) == [i \in 1..len |-> i]

Ones(len) == [i \in 1..len |-> 1]

\* The names the smoothing cell finds: obs and template as read, and their
\* continuum-subtracted p_obs and p_template (here a continuum of 1
\* everywhere).  The observation's uncertainty is flat or rises along the
\* axis; the template has none.
InitFilter ==
    /\ pc = "smooth" /\ err = ""
    /\ KernelUnset
    /\ \E f \in SeqsOf(FluxVals, 1, MaxFluxLen) :
       \E u \in {Ones(Len(f)), Axis(Len(f))} :
           /\ p_obs = Spectrum1D(Axis(Len(f)), f, 1, u)
           /\ obs = Spectrum1D(Axis(Len(f)), [i \in 1..Len(f) |-> f[i] + 1], 1, u)
    /\ \E f \in SeqsOf(FluxVals, 1, MaxTemplateLen) :
           /\ template = Spectrum1D(Axis(Len(f)), f, 1, <<>>)
           /\ p_template =
                  Spectrum1D(Axis(Len(f)), [i \in 1..Len(f) |-> f[i] - 1], 1, <<>>)
    /\ sflux = <<>> /\ CorrUnset /\ PeakUnset /\ RawUnset

\* The cell with the template smoothed like the observation.
SmoothBothSpectra ==
    /\ pc = "smooth" \/ (pc = "continuum_done" /\ err = "")
    /\ b' = b_default
    /\ N' = KernelLength(b_default)
    /\ filt' = Normalised(WindowedSinc9)
    /\ LET conv == ConvolveSame(p_obs.flux, WindowedSinc9)
           den == p_obs.scale * Sum(WindowedSinc9)
       IN  /\ sflux' = Over(conv, den)
           /\ IF Len(conv) = Len(p_obs.wavelength)
              THEN /\ p_obs' = Spectrum1D(p_obs.wavelength, conv, den,
                                          p_obs.uncertainty)
                   /\ err' = ""
              ELSE /\ p_obs' = p_obs
                   /\ err' = "ValueError"
    /\ p_template' =
           Spectrum1D(p_template.wavelength,
                      ConvolveSame(p_template.flux, WindowedSinc9),
                      p_template.scale * Sum(WindowedSinc9),
                      p_template.uncertainty)
    /\ pc' = "smooth_done"
    /\ UNCHANGED <<hdu1d, hdu1dwht, dataspec_sub, obs_orig,
                   obs, template, corr, lag, index_peak, v,
                   peak_lags, peak_vals, p, roots, v_fit, z>>

\* The kernel is normalised to sum 1 before the convolution; the convolution
\* with taps / sum is, value by value, the convolution with the taps over the
\* sum.  Spectrum1D refuses a flux whose length differs from the spectral
\* axis's, and p_obs is then not rebound.  The cell follows the continuum
\* cell when that one has bound p_obs and p_template.
Smooth ==
    /\ pc = "smooth" \/ (pc = "continuum_done" /\ err = "")
    /\ b' = b_default
    /\ N' = KernelLength(b_default)
    /\ filt' = Normalised(WindowedSinc9)
    /\ LET conv == ConvolveSame(p_obs.flux, WindowedSinc9)
           den == p_obs.scale * Sum(WindowedSinc9)
       IN  /\ sflux' = Over(conv, den)
           /\ IF Len(conv) = Len(p_obs.wavelength)
              THEN /\ p_obs' = Spectrum1D(p_obs.wavelength, conv, den,
                                          p_obs.uncertainty)
                   /\ err' = ""
              ELSE /\ p_obs' = p_obs
                   /\ err' = "ValueError"
    /\ pc' = "smooth_done"
    /\ UNCHANGED <<hdu1d, hdu1dwht, dataspec_sub, obs_orig,
                   obs, template, p_template, corr, lag, index_peak, v,
                   peak_lags, peak_vals, p, roots, v_fit, z>>

NextFilter == Smooth

SpecFilter == InitFilter /\ [][NextFilter]_vars

\* C1: the smoothing cell's convolution returns exactly as many values as
\* the flux it was given, also when the flux is shorter than the kernel.
C1_ConvolutionKeepsLength ==
    pc = "smooth_done" => Len(sflux) = Len(p_obs.wavelength)

\* C11: the smoothing step changes only the flux of the continuum-subtracted
\* observation: the spectrum it binds to p_obs has the wavelength axis and
\* the uncertainty of its input and the convolved flux, the observation as
\* read is not modified, and the template, raw and continuum-subtracted, is
\* left as it was.
C11_SmoothingFrame ==
    [][pc = "smooth" =>
          /\ p_obs'.wavelength = p_obs.wavelength
          /\ p_obs'.uncertainty = p_obs.uncertainty
          /\ (err' = "" => FluxValues(p_obs') = sflux')
          /\ obs' = obs
          /\ template' = template
          /\ p_template' = p_template]_vars

\* The cell has smoothed a 10-sample observation with a rising uncertainty:
\* the flux is new, the axis and the uncertainty are the input's, and the
\* observation and the template are the ones read.
C11_Witness ==
    /\ pc = "smooth_done" /\ err = ""
    /\ Len(p_obs.flux) = 10 /\ FluxValues(p_obs) = sflux
    /\ sflux[5] = <<1761, 3272>>
    /\ p_obs.wavelength = Axis(10) /\ p_obs.uncertainty = Axis(10)
    /\ obs.flux[5] = 2 /\ obs.uncertainty = Axis(10)
    /\ template.flux = <<1, 0>> /\ p_template.flux = <<0, -1>>

---------------------------------------------------------------------------
(* Claims about the kernel length.                                         *)

\* C6: for every b in (0, 0.5) the kernel length is odd and at least 3, so
\* N - 1 > 0 and (N - 1) / 2 is the index of a unique centre tap.
C6_OddKernelLength ==
    pc = "kernel_done" =>
        /\ N % 2 = 1
        /\ N >= 3
        /\ N - 1 > 0
        /\ 2 * ((N - 1) \div 2) = N - 1

\* ceil(4 / b) is even (10 for b = 2/5) and the cell has made it odd.
C6_Witness == pc = "kernel_done" /\ b = <<2, 5>> /\ N = 11

---------------------------------------------------------------------------
(* Coarse peak cell.                                                       *)

\* const.c.to('km/s') is 299792.458 km/s: 1 / c as a rational.
c_m_per_s == 299792458

PerC == <<1000, c_m_per_s>>

Value(q) == [kind |-> "value", q |-> q]

\* z = velocity / const.c.to('km/s'), kept as the velocity and the factor 1/c.
Redshift(vel) == [kind |-> vel.kind, q |-> vel.q, per_c |-> PerC]

AMin(c) == CHOOSE m \in {c[i] : i \in 1..Len(c)} : \A i \in 1..Len(c) : m <= c[i]

\* np.amax(c)
AMax(c) == CHOOSE m \in {c[i] : i \in 1..Len(c)} : \A i \in 1..Len(c) : c[i] <= m

\* np.where(c == m)[0]: the 0-based indices holding m.
Where(c, m) == {i - 1 : i \in {j \in 1..Len(c) : c[j] = m}}

LastOf(S) == CHOOSE i \in S : \A j \in S : j <= i

\* [0] of an ascending index array.
FirstOf(S) == CHOOSE i \in S : \A j \in S : i <= j

\* The lag axis of a curve of len values: sample k (0-based) lies
\* k - (len - 1) \div 2 samples from zero lag.
LagAxis(len) == [k \in 1..len |-> (k - 1) - ((len - 1) \div 2)]

Zeros(len) == [i \in 1..len |-> 0]

\* Correlation curves: up to MaxCore free samples between two runs of zeros.
Curves ==
    {Zeros(l) \o core \o Zeros(r) :
        l \in 0..MaxPad, r \in 0..MaxPad, core \in SeqsOf(CorrVals, 1, MaxCore)}

InitPeak ==
    /\ pc = "peak" /\ err = ""
    /\ KernelUnset /\ SpectraUnset /\ ProcessedUnset /\ sflux = <<>>
    /\ corr \in Curves
    /\ lag = LagAxis(Len(corr))
    /\ PeakUnset /\ RawUnset

\* index_peak = np.where(corr == np.amax(corr))[0][0]; v = lag[index_peak];
\* z = v / const.c.to('km/s')
CoarsePeak ==
    /\ pc = "peak"
    /\ index_peak' = FirstOf(Where(corr, AMax(corr)))
    /\ v' = Value(<<lag[index_peak' + 1], 1>>)
    /\ z' = Redshift(v')
    /\ pc' = "coarse_done"
    /\ UNCHANGED <<hdu1d, hdu1dwht, dataspec_sub, obs_orig,
                   err, b, N, filt, obs, template, p_obs, p_template, sflux,
                   corr, lag, peak_lags, peak_vals, p, roots, v_fit>>

---------------------------------------------------------------------------
(* Parabolic fit cell.                                                     *)

\* n = 8: points to the left or right of the correlation maximum
n == 8

\* A Python slice bound on a sequence of len items: a negative bound counts
\* from the end, and the result is clipped to 0..len.
SliceBound(i, len) ==
    IF i < 0 THEN Max(i + len, 0) ELSE Min(i, len)

\* s[start:stop] with 0-based bounds.
PySlice(s, start, stop) ==
    LET lo == SliceBound(start, Len(s))
        hi == SliceBound(stop, Len(s))
    IN  [j \in 1..Max(hi - lo, 0) |-> s[lo + j]]

RECURSIVE Pow(_, _)
Pow(x, k) == IF k = 0 THEN 1 ELSE x * Pow(x, k - 1)

RECURSIVE Moment(_, _, _, _)
\* sum over i <= m of us[i]^k * ys[i]
Moment(us, ys, k, m) ==
    IF m = 0 THEN 0 ELSE Pow(us[m], k) * ys[m] + Moment(us, ys, k, m - 1)

Det3(r1, r2, r3) ==
      r1[1] * (r2[2] * r3[3] - r2[3] * r3[2])
    - r1[2] * (r2[1] * r3[3] - r2[3] * r3[1])
    + r1[3] * (r2[1] * r3[2] - r2[2] * r3[1])

\* A fit [a, b, c] / d in lowest terms, d > 0.
Fit(kind, ca, cb, cc, cd) ==
    LET g == GCD(GCD(ca, cb), GCD(cc, cd))
    IN  [kind |-> kind, a |-> ca \div g, b |-> cb \div g, c |-> cc \div g,
         d |-> cd \div g]

\* np.polyfit on one or two points.  polyfit divides the columns x^2, x, 1 of
\* the Vandermonde matrix by their norms and lstsq returns the solution of
\* least norm in the scaled coefficients: among the parabolas through the
\* points, the one minimising s2 a^2 + s1 b^2 + s0 c^2, with sk the sum of
\* x^(2k) over the points.
\*   One point (x, y), x # 0: [y / (3 x^2), y / (3 x), y / 3].
\*   Two points: the line through them, slope dy / dx and intercept k / dx,
\*   plus t (x - x1) (x - x2) with
\*   t = (s1 (x1 + x2) dy - s0 x1 x2 k) / (dx (s2 + s1 (x1 + x2)^2 + s0 (x1 x2)^2)).
\* (One point at x = 0 makes two column norms 0; see FitPeak.)
MinNormFit(xs, ys) ==
    IF Len(xs) = 1
    THEN Fit("rank_deficient", ys[1], ys[1] * xs[1], ys[1] * xs[1] * xs[1],
             3 * xs[1] * xs[1])
    ELSE LET dx == xs[2] - xs[1]
             dy == ys[2] - ys[1]
             k == ys[1] * xs[2] - ys[2] * xs[1]
             S == xs[1] + xs[2]
             P == xs[1] * xs[2]
             s0 == 2
             s1 == Pow(xs[1], 2) + Pow(xs[2], 2)
             s2 == Pow(xs[1], 4) + Pow(xs[2], 4)
             D == s2 + s1 * S * S + s0 * P * P
             t == s1 * S * dy - s0 * P * k
         IN  Fit("rank_deficient", t, dy * D - t * S, k * D + t * P, dx * D)

\* The coefficients polyfit returns when lstsq lets NaN through.
NaNFit == [kind |-> "nan", a |-> 0, b |-> 0, c |-> 0, d |-> 1]

\* np.polyfit(xs, ys, deg=2): the least-squares parabola a x^2 + b x + c as
\* [a, b, c] over the common denominator d > 0.  The normal equations are
\* solved by Cramer's rule in u = x - xc (xc the middle abscissa, which keeps
\* the moments small) and the coefficients moved back to x.  Fewer than
\* three points leave the fit rank deficient: numpy warns (RankWarning) and
\* returns the minimum-norm solution, see MinNormFit.
PolyFit2(xs, ys) ==
    LET m == Len(xs)
        xc == xs[(m + 1) \div 2]
        us == [i \in 1..m |-> xs[i] - xc]
        one == [i \in 1..m |-> 1]
        S(k) == Moment(us, one, k, m)
        T(k) == Moment(us, ys, k, m)
        D == Det3(<<S(4), S(3), S(2)>>, <<S(3), S(2), S(1)>>, <<S(2), S(1), S(0)>>)
        Da == Det3(<<T(2), S(3), S(2)>>, <<T(1), S(2), S(1)>>, <<T(0), S(1), S(0)>>)
        Db == Det3(<<S(4), T(2), S(2)>>, <<S(3), T(1), S(1)>>, <<S(2), T(0), S(0)>>)
        Dc == Det3(<<S(4), S(3), T(2)>>, <<S(3), S(2), T(1)>>, <<S(2), S(1), T(0)>>)
        g == GCD(GCD(Da, Db), GCD(Dc, D))
        ua == Da \div g
        ub == Db \div g
        uc == Dc \div g
    IN  IF m < 3
        THEN MinNormFit(xs, ys)
        ELSE [kind |-> "ok",
              a |-> ua,
              b |-> ub - 2 * ua * xc,
              c |-> uc - ub * xc + ua * xc * xc,
              d |-> D \div g]

RECURSIVE CmpFrac(_, _, _, _)
\* The sign of p1/q1 - p2/q2 for positive integers, by continued fractions
\* (no product is formed).
CmpFrac(p1, q1, p2, q2) ==
    LET i1 == p1 \div q1
        i2 == p2 \div q2
        r1 == p1 % q1
        r2 == p2 % q2
    IN  IF i1 # i2 THEN Sign(i1 - i2)
        ELSE IF r1 = 0 /\ r2 = 0 THEN 0
        ELSE IF r1 = 0 THEN -1
        ELSE IF r2 = 0 THEN 1
        ELSE -CmpFrac(q1, r1, q2, r2)

\* The sign of the discriminant cb^2 - 4 ca cc.
DiscSign(ca, cb, cc) ==
    IF Sign(ca) * Sign(cc) <= 0
    THEN (IF cb = 0 /\ (ca = 0 \/ cc = 0) THEN 0 ELSE 1)
    ELSE IF cb = 0 THEN -1
    ELSE CmpFrac(Abs(cb), 4 * Abs(ca), Abs(cc), Abs(cb))

\* One root (num + surd * sqrt(|disc|) * j) / den, where j is 1 for a
\* non-negative discriminant and the imaginary unit for a negative one.
Root(num, den, surd, disc) ==
    [num |-> num, den |-> den, surd |-> surd, disc |-> disc]

RootsSameBranch(fit) ==
    IF fit.a # 0
    THEN LET ds == DiscSign(fit.a, fit.b, fit.c)
         IN  <<Root(-fit.b, 2 * fit.a, ds, ds), Root(-fit.b, 2 * fit.a, ds, ds)>>
    ELSE IF fit.b # 0 THEN <<Root(-fit.c, fit.b, 0, 0)>>
    ELSE <<>>

\* np.roots(p): leading zero coefficients are stripped, so a parabola has
\* the two roots (-b +- sqrt(disc)) / (2a), a line one root and a constant
\* none.
Roots(fit) ==
    IF fit.a # 0
    THEN LET ds == DiscSign(fit.a, fit.b, fit.c)
         IN  <<Root(-fit.b, 2 * fit.a, ds, ds), Root(-fit.b, 2 * fit.a, -ds, ds)>>
    ELSE IF fit.b # 0 THEN <<Root(-fit.c, fit.b, 0, 0)>>
    ELSE <<>>

\* np.mean(roots): the sum over the count.  The roots of one polynomial
\* share den, so the sum is (sum of num + (sum of surd) sqrt(|disc|) j) / den;
\* the value is rational when the surds cancel, "surd" when they do not and
\* nan for no roots.
MeanRoots(rs) ==
    IF Len(rs) = 0 THEN [kind |-> "nan", q |-> <<0, 1>>]
    ELSE LET nums == [i \in 1..Len(rs) |-> rs[i].num]
             surds == [i \in 1..Len(rs) |-> rs[i].surd]
         IN  [kind |-> IF Sum(surds) = 0 THEN "value" ELSE "surd",
              q |-> Norm(<<Sum(nums), rs[1].den * Len(rs)>>)]

\* peak_lags = lag[index_peak-n:index_peak+n+1]; likewise peak_vals;
\* p = np.polyfit(peak_lags, peak_vals, deg=2); roots = np.roots(p);
\* v_fit = np.mean(roots); z = v_fit / const.c.to('km/s').
\* np.polyfit raises TypeError on an empty slice.  On the single point of
\* lag 0 the columns x^2 and x have norm 0 and the scaled matrix holds NaN:
\* lstsq raises LinAlgError (SVD did not converge), or, in a LAPACK build
\* that lets NaN through, p is bound to NaN coefficients and np.roots raises
\* LinAlgError on them.
FitPeak ==
    /\ pc = "coarse_done"
    /\ peak_lags' = PySlice(lag, index_peak - n, index_peak + n + 1)
    /\ peak_vals' = PySlice(corr, index_peak - n, index_peak + n + 1)
    /\ IF Len(peak_lags') = 0
       THEN /\ err' = "TypeError"
            /\ UNCHANGED <<p, roots, v_fit, z>>
       ELSE IF Len(peak_lags') = 1 /\ peak_lags'[1] = 0
       THEN /\ err' = "LinAlgError"
            /\ p' \in {p, NaNFit}
            /\ UNCHANGED <<roots, v_fit, z>>
       ELSE /\ err' = ""
            /\ p' = PolyFit2(peak_lags', peak_vals')
            /\ roots' = Roots(p')
            /\ v_fit' = MeanRoots(roots')
            /\ z' = Redshift(v_fit')
    /\ pc' = "fit_done"
    /\ UNCHANGED <<hdu1d, hdu1dwht, dataspec_sub, obs_orig,
                   b, N, filt, obs, template, p_obs, p_template, sflux,
                   corr, lag, index_peak, v>>

NextPeak == CoarsePeak \/ FitPeak

SpecPeak == InitPeak /\ [][NextPeak]_vars

---------------------------------------------------------------------------
(* Claims about the peak estimator.                                        *)

\* The 0-based indices of corr whose lags the fit cell sliced out (the lags
\* are strictly increasing, so a lag names its index).
WindowIndices ==
    {k \in 0..(Len(lag) - 1) : \E j \in 1..Len(peak_lags) : peak_lags[j] = lag[k + 1]}

\* C2: the fit uses exactly the 2n+1 samples index_peak-n .. index_peak+n;
\* when that window runs past either end of the array it is clamped to the
\* array or PeakAtBoundaryError is signalled, so the fit never runs on an
\* empty, silently truncated or wrapped-around window.
C2_WindowClampedOrSignalled ==
    pc = "fit_done" =>
        LET lo == index_peak - n
            hi == index_peak + n
            last == Len(corr) - 1
        IN  IF lo >= 0 /\ hi <= last
            THEN WindowIndices = lo..hi /\ Len(peak_lags) = 2 * n + 1 /\ err = ""
            ELSE \/ err = "PeakAtBoundaryError"
                 \/ /\ WindowIndices = Max(lo, 0)..Min(hi, last)
                    /\ index_peak \in WindowIndices
                    /\ err = ""

\* C3: a fitted parabola that opens upward or has complex roots makes the
\* refinement signal DegenerateFitError and return no velocity and no
\* redshift.
C3_DegenerateFitSignalled ==
    (/\ pc = "fit_done"
     /\ p.kind \in {"ok", "rank_deficient"}
     /\ (p.a > 0 \/ (p.a # 0 /\ DiscSign(p.a, p.b, p.c) < 0)))
    => (err = "DegenerateFitError" /\ v_fit.kind = "none" /\ z.kind = "none")

\* C4: the coarse peak index holds the global maximum of corr, and it is
\* the smallest index that does.
C4_CoarsePeakIsFirstMaximum ==
    pc \in {"coarse_done", "fit_done"} =>
        /\ index_peak \in 0..(Len(corr) - 1)
        /\ \A j \in 1..Len(corr) : corr[j] <= corr[index_peak + 1]
        /\ \A j \in 1..index_peak : corr[j] < corr[index_peak + 1]

\* The maximum occurs again after the index the cell picked.
C4_Witness ==
    /\ pc = "coarse_done"
    /\ index_peak > 0
    /\ \E j \in (index_peak + 2)..Len(corr) : corr[j] = corr[index_peak + 1]

\* C5: for a fitted parabola a x^2 + b x + c with a # 0 the refined velocity,
\* the mean of the two roots, is the vertex -b / (2a), for real and for
\* complex-conjugate roots, and the redshift is that velocity over c in km/s.
C5_MeanOfRootsIsVertex ==
    (pc = "fit_done" /\ p.kind \in {"ok", "rank_deficient"} /\ p.a # 0) =>
        /\ Len(roots) = 2
        /\ v_fit.kind = "value"
        /\ v_fit.q = Norm(<<-p.b, 2 * p.a>>)
        /\ z = [kind |-> "value", q |-> v_fit.q, per_c |-> <<1000, c_m_per_s>>]

\* A fit with complex-conjugate roots and a vertex away from zero lag.
C5_Witness ==
    /\ pc = "fit_done" /\ p.kind = "ok" /\ p.a # 0
    /\ Len(roots) = 2 /\ roots[1].disc < 0
    /\ v_fit.kind = "value" /\ v_fit.q[1] # 0 /\ v_fit.q[2] # 1

---------------------------------------------------------------------------
(* Correlation cell.  correlation.template_correlate is specutils code; it *)
(* is modelled as the direct-domain cross-correlation over pixel lags of   *)
(* the two spectra placed on one common grid.  Both spectra are taken to   *)
(* be sampled on bins of one log-wavelength grid (wavelength = bin number),*)
(* so that resampling is padding with zeros up to the union of the ranges. *)

\* The flux of sp on the bins lo..hi, zero where sp has no sample.
Regrid(sp, lo, hi) ==
    [k \in 1..(hi - lo + 1) |->
        IF \E i \in 1..Len(sp.wavelength) : sp.wavelength[i] = lo + k - 1
        THEN sp.flux[(CHOOSE i \in 1..Len(sp.wavelength) : sp.wavelength[i] = lo + k - 1)]
        ELSE 0]

RECURSIVE CorrTerm(_, _, _, _)
\* sum over i <= m of x[i] * y[i - d], the correlation at pixel lag d
CorrTerm(x, y, d, m) ==
    IF m = 0 THEN 0
    ELSE (IF m - d >= 1 /\ m - d <= Len(y) THEN x[m] * y[m - d] ELSE 0)
         + CorrTerm(x, y, d, m - 1)

CrossCorrelateCircular(x, y) ==
    [k \in 1..(2 * Len(x) - 1) |-> CorrTerm(x, y, (k - 1) % Len(x), Len(x))]

\* The full cross-correlation of two equally long series: one value per
\* pixel lag -(len-1) .. len-1.
CrossCorrelate(x, y) ==
    [k \in 1..(2 * Len(x) - 1) |-> CorrTerm(x, y, k - Len(x), Len(x))]

First(s) == s[1]

Last(s) == s[Len(s)]

\* A spectrum of len samples on the bins start+1 .. start+len.
OnBins(start, f) ==
    Spectrum1D([i \in 1..Len(f) |-> start + i], f, 1, Ones(Len(f)))

InitCorr ==
    /\ pc = "correlate" /\ err = ""
    /\ KernelUnset /\ SpectraUnset /\ sflux = <<>>
    /\ \E s \in 0..MaxShift, f \in SeqsOf(LineVals, 2, MaxObsLen) :
           p_obs = OnBins(s, f)
    /\ \E f \in SeqsOf(LineVals, 2, MaxObsLen) :
           p_template = OnBins(TemplateStart, f)
    /\ CorrUnset /\ PeakUnset /\ RawUnset

\* corr, lag = correlation.template_correlate(p_obs, p_template)
Correlate ==
    /\ pc = "correlate"
    /\ LET lo == Min(First(p_obs.wavelength), First(p_template.wavelength))
           hi == Max(Last(p_obs.wavelength), Last(p_template.wavelength))
       IN  corr' = CrossCorrelate(Regrid(p_obs, lo, hi), Regrid(p_template, lo, hi))
    /\ lag' = LagAxis(Len(corr'))
    /\ pc' = "peak"
    /\ UNCHANGED <<hdu1d, hdu1dwht, dataspec_sub, obs_orig,
                   err, b, N, filt, obs, template, p_obs, p_template, sflux,
                   index_peak, v, peak_lags, peak_vals, p, roots, v_fit, z>>

NextCorr == Correlate \/ CoarsePeak

SpecCorr == InitCorr /\ [][NextCorr]_vars

\* The wavelength ranges of the two spectra share no bin.
Disjoint(sp1, sp2) ==
    \/ Last(sp1.wavelength) < First(sp2.wavelength)
    \/ Last(sp2.wavelength) < First(sp1.wavelength)

\* C8: correlating signals InsufficientOverlapError and produces no
\* correlation result whenever a spectrum has fewer than 2 samples or the
\* two wavelength ranges are disjoint.
C8_InsufficientOverlapSignalled ==
    (/\ pc \in {"peak", "coarse_done"}
     /\ \/ Len(p_obs.flux) < 2
        \/ Len(p_template.flux) < 2
        \/ Disjoint(p_obs, p_template))
    => (err = "InsufficientOverlapError" /\ corr = <<>> /\ lag = <<>>)

\* C10 as stated: a spectrum of at least 2 samples correlated against an
\* unshifted copy of itself has its coarse peak within one sample of lag 0.
C10_SelfPeakNearZero_Original ==
    (pc = "coarse_done" /\ p_obs = p_template /\ Len(p_obs.flux) >= 2)
    => Abs(lag[index_peak + 1]) <= 1

\* C10, amended: a spectrum of at least 2 samples whose flux is not zero
\* everywhere, correlated against an unshifted copy of itself, has its
\* coarse peak within one sample of lag 0.
C10_SelfPeakNearZero ==
    (/\ pc = "coarse_done" /\ p_obs = p_template /\ Len(p_obs.flux) >= 2
     /\ \E i \in 1..Len(p_obs.flux) : p_obs.flux[i] # 0)
    => Abs(lag[index_peak + 1]) <= 1

\* A spectrum with an emission and an absorption sample, self-correlated.
C10_Witness ==
    /\ pc = "coarse_done" /\ p_obs = p_template
    /\ p_obs.flux = <<1, -1, 0>>
    /\ lag[index_peak + 1] = 0 /\ corr[index_peak + 1] = 2

---------------------------------------------------------------------------
(* Continuum subtraction cell.                                             *)

\* fit_generic_continuum's default model is Chebyshev1D(3); the template's
\* is Chebyshev1D(5).
generic_degree == 3

template_degree == 5

\* continuum_model(sp.wavelength) for a spectrum of exactly degree + 1
\* samples: the least-squares polynomial of that degree passes through
\* every sample.
ContinuumExact(sp) == sp.flux

\* sp - continuum_model(sp.wavelength)
Subtract(sp, curve) ==
    Spectrum1D(sp.wavelength,
               [i \in 1..Len(sp.flux) |-> sp.flux[i] - curve[i]],
               sp.scale, sp.uncertainty)

\* Spectra of at most degree + 1 samples: the under-determined fits and the
\* exactly determined one.
InitContinuum ==
    /\ pc = "continuum" /\ err = ""
    /\ KernelUnset
    /\ \E f \in SeqsOf(FluxVals, 1, generic_degree + 1) :
           obs = Spectrum1D(Axis(Len(f)), f, 1, Ones(Len(f)))
    /\ \E f \in SeqsOf(FluxVals, 1, template_degree + 1) :
           template = Spectrum1D(Axis(Len(f)), f, 1, <<>>)
    /\ ProcessedUnset /\ sflux = <<>> /\ CorrUnset /\ PeakUnset /\ RawUnset

\* continuum_model = continuum.fit_generic_continuum(obs)
\* p_obs = obs - continuum_model(obs.wavelength)
\* continuum_model = continuum.fit_generic_continuum(template, model=Chebyshev1D(5))
\* p_template = template - continuum_model(template.wavelength)
\* The fitter (scipy's leastsq) raises TypeError when the model has more
\* parameters than the spectrum has samples; the cell stops at that line.
\* The cell follows the template cell.  (The two length guards bound the
\* model: the
\* continuum is known for spectra of at most degree + 1 samples.)
SubtractContinuum ==
    /\ pc = "continuum"
    /\ Len(obs.flux) <= generic_degree + 1
    /\ Len(template.flux) <= template_degree + 1
    /\ IF Len(obs.flux) < generic_degree + 1
       THEN err' = "TypeError" /\ UNCHANGED <<p_obs, p_template>>
       ELSE /\ p_obs' = Subtract(obs, ContinuumExact(obs))
            /\ IF Len(template.flux) < template_degree + 1
               THEN err' = "TypeError" /\ UNCHANGED p_template
               ELSE /\ p_template' = Subtract(template, ContinuumExact(template))
                    /\ err' = ""
    /\ pc' = "continuum_done"
    /\ UNCHANGED <<hdu1d, hdu1dwht, dataspec_sub, obs_orig,
                   b, N, filt, obs, template, sflux, corr, lag, index_peak, v,
                   peak_lags, peak_vals, p, roots, v_fit, z>>

\* factor = 2.E-5 * obs.flux.unit
factor == <<1, 50000>>

\* The flux columns of the template files the model reads.
TemplateFiles == SeqsOf(FluxVals, 1, template_degree + 1)

\* Spectrum1D(spectral_axis=template['col1']*u.AA, flux=template['col2']*factor)
\* for a table whose col1 is 1, 2, ...: no uncertainty.
TemplateOf(col2) ==
    Spectrum1D(Axis(Len(col2)), [i \in 1..Len(col2) |-> col2[i] * factor[1]],
               factor[2], <<>>)

\* Gaussian1DKernel(stddev=15): exp(-k^2 / 450) for k = 0 .. 5 in
\* thousandths (the kernel is symmetric; spectra of up to 6 samples reach no
\* further tap), and the sum of its 121 taps k = -60 .. 60.
GaussianTaps == <<1000, 998, 991, 980, 965, 946>>

GaussianSum == 37597

RECURSIVE GaussianTerm(_, _, _)
\* sum over j <= m of f[j] * tap(|i - j|)
GaussianTerm(f, i, m) ==
    IF m = 0 THEN 0
    ELSE f[m] * GaussianTaps[Abs(i - m) + 1] + GaussianTerm(f, i, m - 1)

\* gaussian_smooth(sp, stddev=15): astropy's convolve of the flux with the
\* kernel normalised to sum 1, zeros beyond the ends; the spectral axis and
\* the uncertainty are the input's.
GaussianSmoothed(sp) ==
    Spectrum1D(sp.wavelength,
               [i \in 1..Len(sp.flux) |-> GaussianTerm(sp.flux, i, Len(sp.flux))],
               sp.scale * GaussianSum,
               sp.uncertainty)

\* The observation is bound and the template file not yet read.
InitTemplate ==
    /\ pc = "obs_done" /\ err = ""
    /\ KernelUnset
    /\ \E f \in SeqsOf(FluxVals, 1, generic_degree + 1) :
           obs = Spectrum1D(Axis(Len(f)), f, 1, Ones(Len(f)))
    /\ template = NoSpectrum
    /\ ProcessedUnset /\ sflux = <<>> /\ CorrUnset /\ PeakUnset /\ RawUnset

\* Low-resolution case: obs is the smoothed obs_orig and template still the
\* one of the first case (one too short for the continuum fit or one just
\* long enough), about to be read again.
InitTemplateLowRes ==
    /\ pc = "lowres_done" /\ err = ""
    /\ KernelUnset
    /\ \E f \in SeqsOf(FluxVals, 1, generic_degree + 1) :
           /\ obs_orig = Spectrum1D(Axis(Len(f)), f, 1, Ones(Len(f)))
           /\ obs = GaussianSmoothed(obs_orig)
    /\ \E len \in template_degree..(template_degree + 1) :
           template = TemplateOf(Ones(len))
    /\ ProcessedUnset /\ sflux = <<>> /\ CorrUnset /\ PeakUnset
    /\ hdu1d = NoFluxFile /\ hdu1dwht = [data |-> <<>>] /\ dataspec_sub = <<>>

\* template = ascii.read(template_file); factor = 2.E-5 * obs.flux.unit;
\* template = Spectrum1D(...)
\* The cell follows the observation cell, and gaussian_smooth in the
\* low-resolution case, where it rebinds template from the file read anew.
ReadTemplate ==
    /\ pc \in {"obs_done", "lowres_done"}
    /\ \E col2 \in TemplateFiles : template' = TemplateOf(col2)
    /\ pc' = "continuum"
    /\ UNCHANGED <<hdu1d, hdu1dwht, dataspec_sub, obs_orig,
                   err, b, N, filt, obs, p_obs, p_template, sflux, corr, lag,
                   index_peak, v, peak_lags, peak_vals, p, roots, v_fit, z>>

NextContinuum == ReadTemplate \/ SubtractContinuum

SpecContinuum ==
    (InitContinuum \/ InitTemplate \/ InitTemplateLowRes) /\ [][NextContinuum]_vars

\* C9: a continuum fit on fewer samples than degree + 1 (6 for the
\* template) signals FitError and leaves no continuum-subtracted spectrum.
C9_FitErrorSignalled ==
    (/\ pc = "continuum_done"
     /\ \/ Len(obs.flux) < generic_degree + 1
        \/ Len(template.flux) < template_degree + 1)
    => (err = "FitError" /\ p_obs = NoSpectrum /\ p_template = NoSpectrum)

---------------------------------------------------------------------------
(* Reading the observation: the table of wavelength, flux, weight and      *)
(* uncertainty, its rows of positive weight, and the Spectrum1D made of    *)
(* them.                                                                   *)

\* 1./np.sqrt(wht): a value is kept by its square, 1/wht; a zero weight
\* gives inf and a negative one nan.
InvSqrt(wt) ==
    IF wt > 0 THEN [kind |-> "finite", square |-> <<1, wt>>]
    ELSE IF wt = 0 THEN [kind |-> "inf", square |-> <<0, 1>>]
    ELSE [kind |-> "nan", square |-> <<0, 1>>]

\* np.arange(flux.shape[0]) * CD1_1 + CRVAL1, for the 1-based pixel i.
Wave(file, i) == (i - 1) * file.CD1_1 + file.CRVAL1

\* QTable([wave, flux, wht, unc], names=(...)): one row per pixel.
DataSpec(file, whtfile) ==
    [i \in 1..Len(file.data) |->
        [wavelength |-> Wave(file, i),
         flux |-> file.data[i],
         weight |-> whtfile.data[i],
         uncertainty |-> InvSqrt(whtfile.data[i])]]

NonNegativeWeight(row) == row.weight >= 0

PositiveWeight(row) == row.weight > 0

\* The table's rows of weight >= 0.
RowsOfNonNegativeWeight(table) == SelectSeq(table, NonNegativeWeight)

\* dataspec[dataspec['weight'] > 0.]: the rows of the mask, in table order.
RowsOfPositiveWeight(table) == SelectSeq(table, PositiveWeight)

\* Spectrum1D(spectral_axis=dataspec_sub['wavelength'],
\*            flux=dataspec_sub['flux'],
\*            uncertainty=StdDevUncertainty(dataspec_sub['uncertainty']))
ObservationOf(rows) ==
    Spectrum1D([i \in 1..Len(rows) |-> rows[i].wavelength],
               [i \in 1..Len(rows) |-> rows[i].flux],
               1,
               [i \in 1..Len(rows) |-> rows[i].uncertainty])

\* Flux and weight files of the same number of pixels, the wavelength step
\* positive.
Files ==
    \E f \in SeqsOf(FluxVals, 1, MaxRawLen) :
    \E wt \in SeqsOf(WeightVals, Len(f), Len(f)) :
    \E step \in 1..MaxStep, start \in 0..MaxStart :
        /\ hdu1d = [data |-> f, CD1_1 |-> step, CRVAL1 |-> start]
        /\ hdu1dwht = [data |-> wt]

InitRead ==
    /\ pc = "read" /\ err = ""
    /\ KernelUnset /\ SpectraUnset /\ ProcessedUnset /\ sflux = <<>>
    /\ CorrUnset /\ PeakUnset
    /\ Files
    /\ dataspec_sub = <<>> /\ obs_orig = NoSpectrum

\* The low-resolution case starts with the template of the first case
\* still bound (here one too short for the continuum fit or one just long
\* enough); every name is rebound before it is read.
InitReadLowRes ==
    /\ pc = "read2" /\ err = ""
    /\ KernelUnset /\ ProcessedUnset /\ sflux = <<>>
    /\ CorrUnset /\ PeakUnset
    /\ obs = NoSpectrum
    /\ \E len \in template_degree..(template_degree + 1) :
           template = TemplateOf(Ones(len))
    /\ Files
    /\ dataspec_sub = <<>> /\ obs_orig = NoSpectrum

\* The read cell, the same in both cases.
ReadObservation ==
    /\ pc \in {"read", "read2"}
    /\ dataspec_sub' = RowsOfPositiveWeight(DataSpec(hdu1d, hdu1dwht))
    /\ pc' = IF pc = "read" THEN "read_done" ELSE "read2_done"
    /\ UNCHANGED <<hdu1d, hdu1dwht, obs_orig, err, b, N, filt, obs, template,
                   p_obs, p_template, sflux, corr, lag, index_peak, v,
                   peak_lags, peak_vals, p, roots, v_fit, z>>

\* obs = Spectrum1D(...)
MakeObservation ==
    /\ pc = "read_done"
    /\ obs' = ObservationOf(dataspec_sub)
    /\ pc' = "obs_done"
    /\ UNCHANGED <<hdu1d, hdu1dwht, dataspec_sub, obs_orig, err, b, N, filt,
                   template, p_obs, p_template, sflux, corr, lag, index_peak,
                   v, peak_lags, peak_vals, p, roots, v_fit, z>>

\* obs_orig = Spectrum1D(...), low-resolution case
MakeObservationOrig ==
    /\ pc = "read2_done"
    /\ obs_orig' = ObservationOf(dataspec_sub)
    /\ pc' = "orig_done"
    /\ UNCHANGED <<hdu1d, hdu1dwht, dataspec_sub, err, b, N, filt, obs,
                   template, p_obs, p_template, sflux, corr, lag, index_peak,
                   v, peak_lags, peak_vals, p, roots, v_fit, z>>

\* obs = gaussian_smooth(obs_orig, stddev=15)
GaussianSmooth ==
    /\ pc = "orig_done"
    /\ obs' = GaussianSmoothed(obs_orig)
    /\ pc' = "lowres_done"
    /\ UNCHANGED <<hdu1d, hdu1dwht, dataspec_sub, obs_orig, err, b, N, filt,
                   template, p_obs, p_template, sflux, corr, lag, index_peak,
                   v, peak_lags, peak_vals, p, roots, v_fit, z>>

NextRead ==
    \/ ReadObservation
    \/ MakeObservation
    \/ MakeObservationOrig
    \/ GaussianSmooth

SpecRead == (InitRead \/ InitReadLowRes) /\ [][NextRead]_vars

\* The pixels of positive weight, and the place of such a pixel among them.
Kept == {i \in 1..Len(hdu1dwht.data) : hdu1dwht.data[i] > 0}

Rank(i) == Cardinality({j \in Kept : j <= i})

\* sp is made of exactly the pixels of weight > 0, in file order.
BuiltFromKept(sp) ==
    /\ Len(sp.wavelength) = Cardinality(Kept)
    /\ Len(sp.flux) = Cardinality(Kept)
    /\ Len(sp.uncertainty) = Cardinality(Kept)
    /\ sp.scale = 1
    /\ \A i \in Kept :
           /\ sp.wavelength[Rank(i)] = Wave(hdu1d, i)
           /\ sp.flux[Rank(i)] = hdu1d.data[i]
           /\ sp.uncertainty[Rank(i)] = InvSqrt(hdu1dwht.data[i])
    /\ \A i \in (1..Len(hdu1dwht.data)) \ Kept :
           \A k \in 1..Len(sp.wavelength) :
               sp.wavelength[k] # Wave(hdu1d, i)
    /\ \A k \in 1..(Len(sp.wavelength) - 1) :
           sp.wavelength[k] < sp.wavelength[k + 1]

\* C12: the observation is made of exactly the pixels of weight > 0, in
\* file order: each kept pixel's wavelength, flux and uncertainty stand at
\* its rank among the kept ones, no pixel of zero or negative weight is in
\* it, its wavelengths are strictly increasing, and wavelength, flux and
\* uncertainty have one length.  In the low-resolution case this is
\* obs_orig, and the smoothed obs keeps its axis and its lengths.
C12_ObservationFromPositiveWeights ==
    /\ pc = "obs_done" => BuiltFromKept(obs)
    /\ pc \in {"orig_done", "lowres_done"} => BuiltFromKept(obs_orig)
    /\ pc = "lowres_done" =>
           /\ obs.wavelength = obs_orig.wavelength
           /\ Len(obs.flux) = Len(obs.wavelength)
           /\ Len(obs.uncertainty) = Len(obs.wavelength)

\* Four pixels of weights 2, 0, -1, 2: the observation is the first and the
\* fourth.
C12_Witness ==
    /\ pc = "obs_done"
    /\ hdu1dwht.data = <<2, 0, -1, 2>>
    /\ hdu1d.data = <<1, 1, 0, 0>> /\ hdu1d.CD1_1 = 2 /\ hdu1d.CRVAL1 = 1
    /\ obs.wavelength = <<1, 7>> /\ obs.flux = <<1, 0>>
    /\ Len(obs.uncertainty) = 2

---------------------------------------------------------------------------
(* The notebook as a whole: any of the cells, started from its inputs.     *)

Init ==
    \/ InitRead \/ InitReadLowRes \/ InitTemplate \/ InitTemplateLowRes
    \/ InitKernel \/ InitFilter \/ InitContinuum \/ InitCorr \/ InitPeak

Next ==
    \/ ReadObservation
    \/ MakeObservation
    \/ MakeObservationOrig
    \/ GaussianSmooth
    \/ ReadTemplate
    \/ DesignKernel
    \/ Smooth
    \/ SubtractContinuum
    \/ Correlate
    \/ CoarsePeak
    \/ FitPeak

Spec == Init /\ [][Next]_vars

===========================================================================
